---- MODULE Spec2Model ----
(***************************************************************************)
(* Model of src/main.py: a script that reads urls.txt, truncates           *)
(* result.txt, fetches every URL concurrently on one aiohttp session       *)
(* (asyncio.gather), analyses every page and appends one report to         *)
(* result.txt.                                                             *)
(*                                                                         *)
(* A text is a sequence of one-character strings.  A page body is taken    *)
(* to be plain visible text (no markup), so soup.get_text() is the body.   *)
(***************************************************************************)
EXTENDS Integers, Sequences, FiniteSets, TLC

\* ------------------------------------------------------------------ bounds
\* longest urls.txt (number of lines) the model reads
MaxUrls == 3

\* ------------------------------------------------------- program constants
team == <<"t","e","a","m">>
uniberg == <<"u","n","i","b","e","r","g">>
\* main.py:17
WORDS == <<team, uniberg>>

\* ------------------------------------------------------------ environment
\* syntactically valid URLs, and one line that is not a valid URL
ValidUrls == {"a", "b", "c"}
BadUrl == "bad"
AllUrls == ValidUrls \cup {BadUrl}

PageA == <<"O","u","r"," ","t","e","a","m"," ","i","s"," ","t","h","e"," ","b","e","s","t"," ","t","e","a","m"," ","i","n"," ","U","n","i","b","e","r","g">>
PageB == <<"N","o"," ","m","a","t","c","h","e","s"," ","h","e","r","e">>
Pages == {"A", "B"}
PageText(p) == IF p = "A" THEN PageA ELSE PageB

\* what a host does with a request: refuse the connection ("down"), break
\* the transfer while the body is read ("reset"), or serve one of the pages
ServerStates == {"down", "reset"} \cup Pages

None == "None"

\* f[1] + ... + f[n]
RECURSIVE SumOver(_, _)
SumOver(f, n) == IF n = 0 THEN 0 ELSE f[n] + SumOver(f, n - 1)

\* -------------------------------------------------------- str operations
UpperCase == <<"A","B","C","D","E","F","G","H","I","J","K","L","M","N","O","P","Q","R","S","T","U","V","W","X","Y","Z">>
LowerCase == <<"a","b","c","d","e","f","g","h","i","j","k","l","m","n","o","p","q","r","s","t","u","v","w","x","y","z">>
Whitespace == {" ", "\n", "\t"}

RangeOf(s) == {s[i] : i \in 1..Len(s)}

\* str.lower() on one character
LowerChar(c) ==
    IF \E k \in 1..26 : UpperCase[k] = c
    THEN LowerCase[CHOOSE k \in 1..26 : UpperCase[k] = c]
    ELSE c

\* str.lower()
Lower(s) == [i \in 1..Len(s) |-> LowerChar(s[i])]

\* str.isalpha(): non-empty and every character a letter
IsAlpha(s) ==
    /\ Len(s) > 0
    /\ \A i \in 1..Len(s) : s[i] \in RangeOf(UpperCase) \cup RangeOf(LowerCase)

\* str.split(): the maximal runs of non-whitespace characters, in order
RECURSIVE SplitFrom(_, _, _)
SplitFrom(s, i, cur) ==
    IF i > Len(s)
    THEN IF cur = <<>> THEN <<>> ELSE <<cur>>
    ELSE IF s[i] \in Whitespace
         THEN IF cur = <<>> THEN SplitFrom(s, i + 1, <<>>)
              ELSE <<cur>> \o SplitFrom(s, i + 1, <<>>)
         ELSE SplitFrom(s, i + 1, Append(cur, s[i]))

Split(s) == SplitFrom(s, 1, <<>>)

\* variant: the match without re.IGNORECASE
MatchesAt_case_sensitive(text, word, i) ==
    /\ i + Len(word) - 1 <= Len(text)
    /\ \A k \in 1..Len(word) : text[i + k - 1] = word[k]

\* len(re.findall(word, text, re.IGNORECASE)) for a word without regex
\* metacharacters: leftmost non-overlapping case-insensitive occurrences
MatchesAt(text, word, i) ==
    /\ i + Len(word) - 1 <= Len(text)
    /\ \A k \in 1..Len(word) : LowerChar(text[i + k - 1]) = LowerChar(word[k])

RECURSIVE FindAllFrom(_, _, _)
FindAllFrom(text, word, i) ==
    IF i > Len(text) \/ Len(word) = 0
    THEN 0
    ELSE IF MatchesAt(text, word, i)
         THEN 1 + FindAllFrom(text, word, i + Len(word))
         ELSE FindAllFrom(text, word, i + 1)

\* ------------------------------------------------------------- analysis
\* variant: the count of the whitespace-separated tokens that are the word
count_words_whole_word(text, word, url) ==
    [url |-> url, word |-> word,
     count |-> Len(SelectSeq(Split(text), LAMBDA t : Lower(t) = Lower(word)))]

\* main.py:29-42
count_words(text, word, url) ==
    [url |-> url, word |-> word, count |-> FindAllFrom(text, word, 1)]

\* variant: the tokens of the text as it is, not lowercased
get_aggr_data_no_lower(text, url) ==
    LET tokens == Split(text)
        all_words == SelectSeq(tokens, IsAlpha)
    IN [url |-> url,
        total_words |-> Len(all_words),
        unique_words |-> Cardinality(RangeOf(all_words))]

\* main.py:63-77
get_aggr_data(text, url) ==
    LET tokens == Split(Lower(text))
        all_words == SelectSeq(tokens, IsAlpha)
    IN [url |-> url,
        total_words |-> Len(all_words),
        unique_words |-> Cardinality(RangeOf(all_words))]

\* main.py:91-96: the one aggregate row joined on url with the count rows,
\* which asyncio.gather returns in the order of words
url_stat_df(text, url, words) ==
    LET aggr_dict == get_aggr_data(text, url)
        count_dict == [k \in 1..Len(words) |-> count_words(text, words[k], url)]
    IN [k \in 1..Len(words) |->
           [url |-> url,
            total_words |-> aggr_dict.total_words,
            unique_words |-> aggr_dict.unique_words,
            word |-> count_dict[k].word,
            count |-> count_dict[k].count]]

\* what fetch_data returns for each page served at each valid URL
\* (a table, so that a text is analysed once and not once per state)
PageResult == [p \in Pages |-> [u \in ValidUrls |-> url_stat_df(PageText(p), u, WORDS)]]

\* a page result without any word: every count and both aggregates 0
ZeroRows(url, words) ==
    [k \in 1..Len(words) |->
        [url |-> url, total_words |-> 0, unique_words |-> 0,
         word |-> words[k], count |-> 0]]

\* ---------------------------------------------------------------- report
\* pandas Series.unique(): the distinct values in order of first appearance
Unique(s) ==
    LET first == {i \in 1..Len(s) : \A j \in 1..(i - 1) : s[j] # s[i]}
    IN [k \in 1..Cardinality(first) |->
           s[CHOOSE i \in first : Cardinality({j \in first : j <= i}) = k]]

Column(df, col) == [i \in 1..Len(df) |-> df[i][col]]

\* main.py:52: DataFrame.pivot raises ValueError ("Index contains duplicate
\* entries, cannot reshape") when two rows have the same (word, url)
PivotRaises(df) ==
    \E i, j \in 1..Len(df) :
        i # j /\ df[i].word = df[j].word /\ df[i].url = df[j].url

\* pivot_df.loc[word, col][url]
PivotLoc(df, word, col, url) ==
    LET i == CHOOSE i \in 1..Len(df) : df[i].word = word /\ df[i].url = url
    IN df[i][col]

\* pivot_df.loc[word, col].sum(): one cell per url column
RECURSIVE PivotRowSum(_, _, _, _)
PivotRowSum(df, word, col, urlseq) ==
    IF urlseq = <<>> THEN 0
    ELSE PivotLoc(df, word, col, Head(urlseq))
         + PivotRowSum(df, word, col, Tail(urlseq))

\* main.py:55-57: the block of one word
WordBlock(df, word, urlseq) ==
    <<  <<"Occurrences of word", word>>  >>
    \o [k \in 1..Len(urlseq) |->
           <<"-", urlseq[k], PivotLoc(df, word, "count", urlseq[k])>>]
    \o <<  <<"- Total count for word", word,
             PivotRowSum(df, word, "count", urlseq)>>  >>

RECURSIVE WordBlocks(_, _, _)
WordBlocks(df, wordseq, urlseq) ==
    IF wordseq = <<>> THEN <<>>
    ELSE WordBlock(df, Head(wordseq), urlseq)
         \o WordBlocks(df, Tail(wordseq), urlseq)

\* variant: the grand totals summed over the rows of df, where every page
\* has one row per configured word
GrandTotals_all_rows(df, wordseq, urlseq) ==
    <<  <<"* Total count of all words in all urls",
          SumOver(Column(df, "total_words"), Len(df))>>,
        <<"* Total count of unique words in all urls",
          SumOver(Column(df, "unique_words"), Len(df))>>  >>

\* main.py:58-59: the grand totals read the pivot row of the word the loop
\* ended on
GrandTotals(df, wordseq, urlseq) ==
    LET word == wordseq[Len(wordseq)]
    IN <<  <<"* Total count of all words in all urls",
             PivotRowSum(df, word, "total_words", urlseq)>>,
           <<"* Total count of unique words in all urls",
             PivotRowSum(df, word, "unique_words", urlseq)>>  >>

\* main.py:50-59: the lines save_data builds (defined when pivot succeeds)
ReportLines(df) ==
    LET wordseq == Unique(Column(df, "word"))
        urlseq == Unique(Column(df, "url"))
    IN WordBlocks(df, wordseq, urlseq) \o GrandTotals(df, wordseq, urlseq)

\* pd.concat(frames, ignore_index=True): the rows of the frames, in order
RECURSIVE Concat(_)
Concat(frames) ==
    IF frames = <<>> THEN <<>>
    ELSE Head(frames) \o Concat(Tail(frames))

\* ------------------------------------------------------------ messages
MsgMissing == "Please provide valid ursl.txt file."
MsgEmpty == "File ursl.txt is empty!"
MsgInvalid == "There is an invalid url"
MsgConnection == "Connection error"
MsgGeneral == "General exception"
MsgElapsed == "Elapsed time"

\* ---------------------------------------------------------------- state
VARIABLES
    urlsFile,        \* urls.txt: [kind, lines], the lines already stripped
    resultFile,      \* result.txt: [exists, content, ops]
    server,          \* what each valid URL's host does
    pc,              \* position of the script / of the main coroutine
    urls,            \* the list get_urls returned
    session,         \* "none", "open", "closed"
    nSessions,       \* number of ClientSession objects created
    task,            \* one record per coroutine fetch_all created
    completion,      \* the tasks that have finished, in the order they did
    gatherExc,       \* exception set on the gather future, or None
    exc,             \* exception propagating out of main, or None
    final_df,        \* <<rows>> once fetch_all has returned, else <<>>
    lines,           \* <<lines>> once save_data has built them, else <<>>
    clock,           \* perf_counter()
    start_time,      \* <<t>> once main.py:117 has run, else <<>>
    time_difference, \* <<d>> once main.py:122 has run, else <<>>
    stdout,          \* messages printed
    escaped,         \* exception that left the program uncaught, or None
    run,             \* how many times the program has been started
    previous,        \* <<what the run before this one left>>, else <<>>
    txt,             \* fetch_data on its own: the text of the body
    wlist,           \* fetch_data on its own: the list of words
    apc,             \* fetch_data on its own: position in main.py:90-96
    aggr_df,         \* <<the row get_aggr_data returned>>, else <<>>
    count_df,        \* per word, <<the row count_words returned>>, else <<>>
    corder,          \* the count_words calls that have returned, in order
    out              \* <<rows fetch_data returns>>, else <<>>

\* the state of one run of the program
progVars == <<urlsFile, resultFile, server, pc, urls, session, nSessions,
              task, completion, gatherExc, exc, final_df, lines, clock,
              start_time, time_difference, stdout, escaped>>

\* the state of the analysis of one body, taken on its own
analysisVars == <<txt, wlist, apc, aggr_df, count_df, corder, out>>

vars == <<progVars, run, previous, analysisVars>>

\* the sequences over S of length 0..n
SeqUpTo(S, n) == UNION {[1..k -> S] : k \in 0..n}

OldReport == <<  <<"report of an earlier run">>  >>

\* The valid URLs are interchangeable names, so the lists are taken up to
\* renaming: the first valid URL of a list is "a", the next new one "b",
\* the next new one "c".
Canonical(l) ==
    \A i \in 1..Len(l) :
        /\ l[i] = "b" => \E j \in 1..(i - 1) : l[j] = "a"
        /\ l[i] = "c" => \E j \in 1..(i - 1) : l[j] = "b"

\* urls.txt: missing, unreadable, or a readable file of 0..MaxUrls lines
UrlsFiles ==
    {[kind |-> "missing", lines |-> <<>>], [kind |-> "denied", lines |-> <<>>]}
    \cup {[kind |-> "ok", lines |-> l] :
             l \in {m \in SeqUpTo(AllUrls, MaxUrls) : Canonical(m)}}

\* result.txt before the run: absent, or left by an earlier run.  content is
\* the sequence of the texts written and not truncated away; ops is the
\* sequence of the operations this run has performed on the file.
ResultFiles ==
    {[exists |-> FALSE, content |-> <<>>, ops |-> <<>>],
     [exists |-> TRUE, content |-> <<OldReport>>, ops |-> <<>>]}

\* what open() of a file can do apart from FileNotFoundError: succeed, or
\* fail with another OSError, such as PermissionError
OpenOutcomes == {"ok", "PermissionError"}

Init ==
    /\ urlsFile \in UrlsFiles
    /\ resultFile \in ResultFiles
    /\ server \in [ValidUrls -> ServerStates]
    /\ \A u \in ValidUrls : u \notin RangeOf(urlsFile.lines) => server[u] = "down"
    /\ pc = "get_urls"
    /\ urls = <<>>
    /\ session = "none"
    /\ nSessions = 0
    /\ task = <<>>
    /\ completion = <<>>
    /\ gatherExc = None
    /\ exc = None
    /\ final_df = <<>>
    /\ lines = <<>>
    /\ clock = 0
    /\ start_time = <<>>
    /\ time_difference = <<>>
    /\ stdout = <<>>
    /\ escaped = None
    /\ run = 1
    /\ previous = <<>>
    /\ txt = <<>>
    /\ wlist = <<>>
    /\ apc = "off"
    /\ aggr_df = <<>>
    /\ count_df = <<>>
    /\ corder = <<>>
    /\ out = <<>>

Tick == clock' = clock + 1

Tasks == 1..Len(task)

\* ------------------------------------------------------ script, setup
\* variant: without the assert, an empty list goes on to the batch
get_urls_no_assert ==
    /\ pc = "get_urls"
    /\ \/ /\ urlsFile.kind = "missing"
          /\ stdout' = Append(stdout, MsgMissing)
          /\ pc' = "exit"
          /\ UNCHANGED <<urls, escaped>>
       \/ /\ urlsFile.kind = "denied"
          /\ escaped' = "PermissionError"
          /\ pc' = "crashed"
          /\ UNCHANGED <<urls, stdout>>
       \/ /\ urlsFile.kind = "ok"
          /\ urls' = urlsFile.lines
          /\ pc' = "truncate"
          /\ UNCHANGED <<stdout, escaped>>
    /\ Tick
    /\ UNCHANGED <<run, previous, analysisVars>>
    /\ UNCHANGED <<urlsFile, resultFile, server, session, nSessions, task,
                   completion, gatherExc, exc, final_df, lines, start_time,
                   time_difference>>

\* main.py:126-132 with get_urls (19-27): a missing file and an empty list
\* are reported; any other error of open() is not caught
get_urls ==
    /\ pc = "get_urls"
    /\ \/ /\ urlsFile.kind = "missing"
          /\ stdout' = Append(stdout, MsgMissing)
          /\ pc' = "exit"
          /\ UNCHANGED <<urls, escaped>>
       \/ /\ urlsFile.kind = "denied"
          /\ escaped' = "PermissionError"
          /\ pc' = "crashed"
          /\ UNCHANGED <<urls, stdout>>
       \/ /\ urlsFile.kind = "ok"
          /\ urlsFile.lines = <<>>
          /\ stdout' = Append(stdout, MsgEmpty)
          /\ pc' = "exit"
          /\ UNCHANGED <<urls, escaped>>
       \/ /\ urlsFile.kind = "ok"
          /\ urlsFile.lines # <<>>
          /\ urls' = urlsFile.lines
          /\ pc' = "truncate"
          /\ UNCHANGED <<stdout, escaped>>
    /\ Tick
    /\ UNCHANGED <<run, previous, analysisVars>>
    /\ UNCHANGED <<urlsFile, resultFile, server, session, nSessions, task,
                   completion, gatherExc, exc, final_df, lines, start_time,
                   time_difference>>

\* variant: the file opened with "r+" and closed again, without truncate(0)
truncate_not_truncating ==
    /\ pc = "truncate"
    /\ \/ /\ ~resultFile.exists
          /\ pc' = "main"
          /\ UNCHANGED <<resultFile, escaped>>
       \/ /\ resultFile.exists
          /\ \E outcome \in OpenOutcomes :
                IF outcome = "ok"
                THEN /\ resultFile' = [resultFile EXCEPT
                                         !.ops = Append(@, "truncate")]
                     /\ pc' = "main"
                     /\ UNCHANGED escaped
                ELSE /\ escaped' = outcome
                     /\ pc' = "crashed"
                     /\ UNCHANGED resultFile
    /\ Tick
    /\ UNCHANGED <<run, previous, analysisVars>>
    /\ UNCHANGED <<urlsFile, server, urls, session, nSessions, task,
                   completion, gatherExc, exc, final_df, lines, start_time,
                   time_difference, stdout>>

\* main.py:134-138: open(..., "r+") and truncate(0); only FileNotFoundError
\* (the file is absent) is caught
truncate ==
    /\ pc = "truncate"
    /\ \/ /\ ~resultFile.exists
          /\ pc' = "main"
          /\ UNCHANGED <<resultFile, escaped>>
       \/ /\ resultFile.exists
          /\ \E outcome \in OpenOutcomes :
                IF outcome = "ok"
                THEN /\ resultFile' = [resultFile EXCEPT
                                         !.content = <<>>,
                                         !.ops = Append(@, "truncate")]
                     /\ pc' = "main"
                     /\ UNCHANGED escaped
                ELSE /\ escaped' = outcome
                     /\ pc' = "crashed"
                     /\ UNCHANGED resultFile
    /\ Tick
    /\ UNCHANGED <<run, previous, analysisVars>>
    /\ UNCHANGED <<urlsFile, server, urls, session, nSessions, task,
                   completion, gatherExc, exc, final_df, lines, start_time,
                   time_difference, stdout>>

\* -------------------------------------------------------- main coroutine
\* main.py:117
main_start ==
    /\ pc = "main"
    /\ start_time' = <<clock>>
    /\ pc' = "session"
    /\ Tick
    /\ UNCHANGED <<run, previous, analysisVars>>
    /\ UNCHANGED <<urlsFile, resultFile, server, urls, session, nSessions,
                   task, completion, gatherExc, exc, final_df, lines, time_difference,
                   stdout, escaped>>

\* main.py:118: async with aiohttp.ClientSession() as session
session_open ==
    /\ pc = "session"
    /\ session' = "open"
    /\ nSessions' = nSessions + 1
    /\ pc' = "fetch_all"
    /\ Tick
    /\ UNCHANGED <<run, previous, analysisVars>>
    /\ UNCHANGED <<urlsFile, resultFile, server, urls, task, completion, gatherExc, exc,
                   final_df, lines, start_time, time_difference, stdout,
                   escaped>>

\* variant: one coroutine per distinct URL
fetch_all_unique ==
    /\ pc = "fetch_all"
    /\ task' = [i \in 1..Len(Unique(urls)) |->
                  [url |-> Unique(urls)[i], st |-> "pending", exc |-> None,
                   session |-> nSessions, result |-> <<>>]]
    /\ pc' = "gather"
    /\ Tick
    /\ UNCHANGED <<run, previous, analysisVars>>
    /\ UNCHANGED <<urlsFile, resultFile, server, urls, session, nSessions,
                   completion, gatherExc, exc, final_df, lines, start_time,
                   time_difference, stdout, escaped>>

\* main.py:107-108: one coroutine per entry of urls, all handed to
\* asyncio.gather, which schedules them as tasks before it is awaited
fetch_all ==
    /\ pc = "fetch_all"
    /\ task' = [i \in 1..Len(urls) |->
                  [url |-> urls[i], st |-> "pending", exc |-> None,
                   session |-> nSessions, result |-> <<>>]]
    /\ pc' = "gather"
    /\ Tick
    /\ UNCHANGED <<run, previous, analysisVars>>
    /\ UNCHANGED <<urlsFile, resultFile, server, urls, session, nSessions,
                   completion, gatherExc, exc, final_df, lines, start_time,
                   time_difference, stdout, escaped>>

\* ------------------------------------------------------------ fetch tasks
\* the event loop runs tasks while the main coroutine is suspended in
\* gather, and until main is resumed with the exception and closes the
\* session
LoopRuns == pc \in {"gather", "aexit_exc"}

\* variant: the error is caught in the task, which returns a page result
\* without any word
Raise_swallowed(i, e) ==
    /\ task' = [task EXCEPT ![i].st = "done",
                            ![i].result = ZeroRows(task[i].url, WORDS)]
    /\ completion' = Append(completion, i)
    /\ UNCHANGED gatherExc

\* a task ends with an exception; asyncio.gather (return_exceptions=False)
\* sets the first exception of a child on its future
Raise(i, e) ==
    /\ task' = [task EXCEPT ![i].st = "failed", ![i].exc = e]
    /\ completion' = Append(completion, i)
    /\ gatherExc' = IF gatherExc = None THEN e ELSE gatherExc

\* no task is waiting for its first run
AllStarted == \A i \in Tasks : task[i].st # "pending"

\* main.py:88: the first run of a task, up to its first suspension in
\* session.get(url); an unparsable URL raises InvalidURL there.  gather
\* queued the first runs in the order of its arguments, ahead of anything
\* the loop does later, so they happen in that order and while main is
\* still suspended.
fetch_data_start(i) ==
    /\ pc = "gather"
    /\ session = "open"
    /\ task[i].st = "pending"
    /\ \A j \in 1..(i - 1) : task[j].st # "pending"
    /\ IF task[i].url \notin ValidUrls
       THEN Raise(i, "InvalidURL")
       ELSE /\ task' = [task EXCEPT ![i].st = "connecting"]
            /\ UNCHANGED <<completion, gatherExc>>
    /\ Tick
    /\ UNCHANGED <<run, previous, analysisVars>>
    /\ UNCHANGED <<urlsFile, resultFile, server, pc, urls, session,
                   nSessions, exc, final_df, lines, start_time,
                   time_difference, stdout, escaped>>

\* variant: a refused connection gives a page result without any word
fetch_data_connect_swallow(i) ==
    /\ LoopRuns
    /\ AllStarted
    /\ session = "open"
    /\ task[i].st = "connecting"
    /\ IF server[task[i].url] = "down"
       THEN /\ task' = [task EXCEPT ![i].st = "done",
                                    ![i].result = ZeroRows(task[i].url, WORDS)]
            /\ completion' = Append(completion, i)
            /\ UNCHANGED gatherExc
       ELSE /\ task' = [task EXCEPT ![i].st = "reading"]
            /\ UNCHANGED <<completion, gatherExc>>
    /\ Tick
    /\ UNCHANGED <<run, previous, analysisVars>>
    /\ UNCHANGED <<urlsFile, resultFile, server, pc, urls, session,
                   nSessions, exc, final_df, lines, start_time,
                   time_difference, stdout, escaped>>

\* variant: the requests made one after the other, each connection waiting
\* for the tasks before it to have ended
fetch_data_connect_in_turn(i) ==
    /\ LoopRuns
    /\ AllStarted
    /\ session = "open"
    /\ task[i].st = "connecting"
    /\ \A j \in 1..(i - 1) : task[j].st \in {"done", "failed"}
    /\ IF server[task[i].url] = "down"
       THEN Raise(i, "ClientConnectorError")
       ELSE /\ task' = [task EXCEPT ![i].st = "reading"]
            /\ UNCHANGED <<completion, gatherExc>>
    /\ Tick
    /\ UNCHANGED <<run, previous, analysisVars>>
    /\ UNCHANGED <<urlsFile, resultFile, server, pc, urls, session,
                   nSessions, exc, final_df, lines, start_time,
                   time_difference, stdout, escaped>>

\* main.py:88: the connection is made and the response headers arrive, or
\* the connection fails with ClientConnectorError
fetch_data_connect(i) ==
    /\ LoopRuns
    /\ AllStarted
    /\ session = "open"
    /\ task[i].st = "connecting"
    /\ IF server[task[i].url] = "down"
       THEN Raise(i, "ClientConnectorError")
       ELSE /\ task' = [task EXCEPT ![i].st = "reading"]
            /\ UNCHANGED <<completion, gatherExc>>
    /\ Tick
    /\ UNCHANGED <<run, previous, analysisVars>>
    /\ UNCHANGED <<urlsFile, resultFile, server, pc, urls, session,
                   nSessions, exc, final_df, lines, start_time,
                   time_difference, stdout, escaped>>

\* main.py:89-96: the body arrives and is analysed, or the transfer breaks
fetch_data_read(i) ==
    /\ LoopRuns
    /\ AllStarted
    /\ session = "open"
    /\ task[i].st = "reading"
    /\ IF server[task[i].url] = "reset"
       THEN Raise(i, "ClientPayloadError")
       ELSE /\ task' = [task EXCEPT
                   ![i].st = "done",
                   ![i].result = PageResult[server[task[i].url]][task[i].url]]
            /\ completion' = Append(completion, i)
            /\ UNCHANGED gatherExc
    /\ Tick
    /\ UNCHANGED <<run, previous, analysisVars>>
    /\ UNCHANGED <<urlsFile, resultFile, server, pc, urls, session,
                   nSessions, exc, final_df, lines, start_time,
                   time_difference, stdout, escaped>>

\* -------------------------------------------------------------- fan-in
AllDone == \A i \in Tasks : task[i].st = "done"

\* variant: the results joined in the order the tasks completed
gather_return_completion_order ==
    /\ pc = "gather"
    /\ AllDone
    /\ final_df' = <<Concat([k \in 1..Len(completion) |->
                               task[completion[k]].result])>>
    /\ pc' = "save_data"
    /\ Tick
    /\ UNCHANGED <<run, previous, analysisVars>>
    /\ UNCHANGED <<urlsFile, resultFile, server, urls, session, nSessions,
                   task, completion, gatherExc, exc, lines, start_time,
                   time_difference, stdout, escaped>>

\* variant: the end of the measurement taken as soon as the results are in
gather_return_stops_clock ==
    /\ pc = "gather"
    /\ AllDone
    /\ final_df' = <<Concat([i \in Tasks |-> task[i].result])>>
    /\ time_difference' = <<clock - start_time[1]>>
    /\ pc' = "save_data"
    /\ Tick
    /\ UNCHANGED <<run, previous, analysisVars>>
    /\ UNCHANGED <<urlsFile, resultFile, server, urls, session, nSessions,
                   task, completion, gatherExc, exc, lines, start_time,
                   stdout, escaped>>

\* main.py:108: every task returned; gather gives the results in the order
\* of its arguments and pd.concat joins them
gather_return ==
    /\ pc = "gather"
    /\ AllDone
    /\ final_df' = <<Concat([i \in Tasks |-> task[i].result])>>
    /\ pc' = "save_data"
    /\ Tick
    /\ UNCHANGED <<run, previous, analysisVars>>
    /\ UNCHANGED <<urlsFile, resultFile, server, urls, session, nSessions,
                   task, completion, gatherExc, exc, lines, start_time, time_difference,
                   stdout, escaped>>

\* variant: gather with return_exceptions=True; when every task has ended
\* the failed ones are collected as page results without any word
gather_raise_collects ==
    /\ pc = "gather"
    /\ AllStarted
    /\ gatherExc # None
    /\ \A i \in Tasks : task[i].st \in {"done", "failed"}
    /\ final_df' = <<Concat([i \in Tasks |->
                               IF task[i].st = "done" THEN task[i].result
                               ELSE ZeroRows(task[i].url, WORDS)])>>
    /\ pc' = "save_data"
    /\ Tick
    /\ UNCHANGED <<run, previous, analysisVars>>
    /\ UNCHANGED <<urlsFile, resultFile, server, urls, session, nSessions,
                   task, completion, gatherExc, exc, lines, start_time,
                   time_difference, stdout, escaped>>

\* main.py:108: the await of gather raises the first exception of a child;
\* it leaves fetch_all and reaches the async with of main
gather_raise ==
    /\ pc = "gather"
    /\ AllStarted
    /\ gatherExc # None
    /\ exc' = gatherExc
    /\ pc' = "aexit_exc"
    /\ Tick
    /\ UNCHANGED <<run, previous, analysisVars>>
    /\ UNCHANGED <<urlsFile, resultFile, server, urls, session, nSessions,
                   task, completion, gatherExc, final_df, lines, start_time,
                   time_difference, stdout, escaped>>

\* ------------------------------------------------------------ save_data
\* main.py:49-59: pivot and build the lines
save_data_lines ==
    /\ pc = "save_data"
    /\ IF PivotRaises(final_df[1])
       THEN /\ exc' = "ValueError"
            /\ pc' = "aexit_exc"
            /\ UNCHANGED lines
       ELSE /\ lines' = <<ReportLines(final_df[1])>>
            /\ pc' = "save_open"
            /\ UNCHANGED exc
    /\ Tick
    /\ UNCHANGED <<run, previous, analysisVars>>
    /\ UNCHANGED <<urlsFile, resultFile, server, urls, session, nSessions,
                   task, completion, gatherExc, final_df, start_time, time_difference,
                   stdout, escaped>>

\* main.py:60: aiofiles.open(result_file_path, mode='a') creates the file
\* when it is absent, or fails
save_data_open ==
    /\ pc = "save_open"
    /\ \E outcome \in OpenOutcomes :
          IF outcome = "ok"
          THEN /\ resultFile' = [resultFile EXCEPT !.exists = TRUE,
                                                  !.ops = Append(@, "open")]
               /\ pc' = "save_write"
               /\ UNCHANGED exc
          ELSE /\ exc' = outcome
               /\ pc' = "aexit_exc"
               /\ UNCHANGED resultFile
    /\ Tick
    /\ UNCHANGED <<run, previous, analysisVars>>
    /\ UNCHANGED <<urlsFile, server, urls, session, nSessions, task,
                   completion, gatherExc, final_df, lines, start_time, time_difference,
                   stdout, escaped>>

\* variant: the lines written in two writes
save_data_write_twice ==
    /\ pc = "save_write"
    /\ resultFile' = [resultFile EXCEPT
                        !.content = @ \o <<SubSeq(lines[1], 1, 1),
                                           SubSeq(lines[1], 2, Len(lines[1]))>>,
                        !.ops = @ \o <<"write", "write">>]
    /\ pc' = "aexit_ok"
    /\ Tick
    /\ UNCHANGED <<run, previous, analysisVars>>
    /\ UNCHANGED <<urlsFile, server, urls, session, nSessions, task,
                   completion, gatherExc, exc, final_df, lines, start_time,
                   time_difference, stdout, escaped>>

\* main.py:61: one write of the joined lines, at the end of the file
save_data_write ==
    /\ pc = "save_write"
    /\ resultFile' = [resultFile EXCEPT !.content = Append(@, lines[1]),
                                       !.ops = Append(@, "write")]
    /\ pc' = "aexit_ok"
    /\ Tick
    /\ UNCHANGED <<run, previous, analysisVars>>
    /\ UNCHANGED <<urlsFile, server, urls, session, nSessions, task,
                   completion, gatherExc, exc, final_df, lines, start_time,
                   time_difference, stdout, escaped>>

\* --------------------------------------------------------- end of main
\* main.py:118-120: leaving the async with closes the session
session_close ==
    /\ pc \in {"aexit_ok", "aexit_exc"}
    /\ session' = "closed"
    /\ pc' = IF pc = "aexit_ok" THEN "main_stop" ELSE "run_shutdown"
    /\ Tick
    /\ UNCHANGED <<run, previous, analysisVars>>
    /\ UNCHANGED <<urlsFile, resultFile, server, urls, nSessions, task,
                   completion, gatherExc, exc, final_df, lines, start_time,
                   time_difference, stdout, escaped>>

\* main.py:122
main_stop ==
    /\ pc = "main_stop"
    /\ time_difference' = <<clock - start_time[1]>>
    /\ pc' = "print"
    /\ Tick
    /\ UNCHANGED <<run, previous, analysisVars>>
    /\ UNCHANGED <<urlsFile, resultFile, server, urls, session, nSessions,
                   task, completion, gatherExc, exc, final_df, lines, start_time,
                   stdout, escaped>>

\* main.py:123
print_elapsed ==
    /\ pc = "print"
    /\ stdout' = Append(stdout, MsgElapsed)
    /\ pc' = "exit"
    /\ Tick
    /\ UNCHANGED <<run, previous, analysisVars>>
    /\ UNCHANGED <<urlsFile, resultFile, server, urls, session, nSessions,
                   task, completion, gatherExc, exc, final_df, lines, start_time,
                   time_difference, escaped>>

\* variant: the tasks still suspended are waited for, not cancelled
cancel_all_tasks_awaits ==
    /\ pc = "run_shutdown"
    /\ \A i \in Tasks : task[i].st \notin {"connecting", "reading"}
    /\ pc' = "handler"
    /\ Tick
    /\ UNCHANGED <<run, previous, analysisVars>>
    /\ UNCHANGED <<urlsFile, resultFile, server, urls, session, nSessions,
                   task, completion, gatherExc, exc, final_df, lines,
                   start_time, time_difference, stdout, escaped>>

\* asyncio.run, after main raised: every task not yet finished is
\* cancelled, unless the loss of its connection, which the closing of the
\* session caused, ended it first
cancel_all_tasks ==
    /\ pc = "run_shutdown"
    /\ \E lost \in SUBSET {i \in Tasks : task[i].st \in {"connecting", "reading"}} :
          task' = [i \in Tasks |->
                     IF i \in lost
                     THEN [task[i] EXCEPT !.st = "failed",
                                          !.exc = "ClientConnectionError"]
                     ELSE IF task[i].st \in {"connecting", "reading"}
                     THEN [task[i] EXCEPT !.st = "cancelled",
                                          !.exc = "CancelledError"]
                     ELSE task[i]]
    /\ pc' = "handler"
    /\ Tick
    /\ UNCHANGED <<run, previous, analysisVars>>
    /\ UNCHANGED <<urlsFile, resultFile, server, urls, session, nSessions,
                   completion, gatherExc, exc, final_df, lines, start_time,
                   time_difference, stdout, escaped>>

\* main.py:141-146
HandlerMessage(e) ==
    IF e = "InvalidURL" THEN MsgInvalid
    ELSE IF e = "ClientConnectorError" THEN MsgConnection
    ELSE MsgGeneral

\* variant: without the last except clause, an error that is neither
\* InvalidURL nor ClientConnectorError leaves the program
handler_no_general ==
    /\ pc = "handler"
    /\ IF exc \in {"InvalidURL", "ClientConnectorError"}
       THEN /\ stdout' = Append(stdout, HandlerMessage(exc))
            /\ pc' = "exit"
            /\ UNCHANGED escaped
       ELSE /\ escaped' = exc
            /\ pc' = "crashed"
            /\ UNCHANGED stdout
    /\ Tick
    /\ UNCHANGED <<run, previous, analysisVars>>
    /\ UNCHANGED <<urlsFile, resultFile, server, urls, session, nSessions,
                   task, completion, gatherExc, exc, final_df, lines,
                   start_time, time_difference>>

handler ==
    /\ pc = "handler"
    /\ stdout' = Append(stdout, HandlerMessage(exc))
    /\ pc' = "exit"
    /\ Tick
    /\ UNCHANGED <<run, previous, analysisVars>>
    /\ UNCHANGED <<urlsFile, resultFile, server, urls, session, nSessions,
                   task, completion, gatherExc, exc, final_df, lines, start_time,
                   time_difference, escaped>>

Next ==
    \/ get_urls
    \/ truncate
    \/ main_start
    \/ session_open
    \/ fetch_all
    \/ \E i \in Tasks : fetch_data_start(i)
    \/ \E i \in Tasks : fetch_data_connect(i)
    \/ \E i \in Tasks : fetch_data_read(i)
    \/ gather_return
    \/ gather_raise
    \/ save_data_lines
    \/ save_data_open
    \/ save_data_write
    \/ session_close
    \/ main_stop
    \/ print_elapsed
    \/ cancel_all_tasks
    \/ handler

Spec == Init /\ [][Next]_vars

\* longest urls.txt the runs under fairness read
MaxFairUrls == 2

InitFair == Init /\ Len(urlsFile.lines) <= MaxFairUrls

\* The event loop runs whatever is ready, and every request that is awaited
\* is eventually answered or fails: a step that can be taken is taken.
SpecFair == InitFair /\ [][Next]_vars /\ WF_vars(Next)

TypeOK ==
    /\ pc \in {"get_urls", "truncate", "main", "session", "fetch_all",
               "gather", "save_data", "save_open", "save_write", "aexit_ok",
               "aexit_exc", "main_stop", "print", "run_shutdown", "handler",
               "exit", "crashed"}
    /\ session \in {"none", "open", "closed"}
    /\ Len(stdout) <= 1

\* ============================================ fetch_data on one body
\* main.py:90-96 taken on its own: the analysis of one body, for bodies and
\* word lists drawn from small sets.  The run of the program takes no part:
\* its variables keep the values they have before the first step.
MaxTextLen == 3

TextAlphabet == {"a", "A", "b", " ", "1"}

Teamwork == <<"t","e","a","m","w","o","r","k">>

\* str.swapcase()
SwapChar(c) ==
    IF \E k \in 1..26 : UpperCase[k] = c
    THEN LowerCase[CHOOSE k \in 1..26 : UpperCase[k] = c]
    ELSE IF \E k \in 1..26 : LowerCase[k] = c
    THEN UpperCase[CHOOSE k \in 1..26 : LowerCase[k] = c]
    ELSE c

SwapCase(s) == [i \in 1..Len(s) |-> SwapChar(s[i])]

\* str.upper()
Upper(s) == SwapCase(Lower(s))

AnalysisWords == {<<"a">>, <<"a", "a">>, <<"a", "A">>, <<"A", "b">>}

\* the bodies and word lists analysed: every short text with a list of two
\* words, the second being the first in the other case or the word "b";
\* and three longer texts with the configured words
AnalysisInputs ==
    {[text |-> t, words |-> <<w, SwapCase(w)>>] :
        t \in SeqUpTo(TextAlphabet, MaxTextLen), w \in AnalysisWords}
    \cup {[text |-> t, words |-> <<w, <<"b">>>>] :
        t \in SeqUpTo(TextAlphabet, MaxTextLen), w \in AnalysisWords}
    \cup {[text |-> t, words |-> WORDS] : t \in {PageA, PageB, Teamwork}}

AnalysisUrl == "a"

InitAnalysis ==
    /\ urlsFile = [kind |-> "ok", lines |-> <<AnalysisUrl>>]
    /\ resultFile = [exists |-> FALSE, content |-> <<>>, ops |-> <<>>]
    /\ server = [u \in ValidUrls |-> "down"]
    /\ pc = "get_urls"
    /\ urls = <<>>
    /\ session = "none"
    /\ nSessions = 0
    /\ task = <<>>
    /\ completion = <<>>
    /\ gatherExc = None
    /\ exc = None
    /\ final_df = <<>>
    /\ lines = <<>>
    /\ clock = 0
    /\ start_time = <<>>
    /\ time_difference = <<>>
    /\ stdout = <<>>
    /\ escaped = None
    /\ run = 1
    /\ previous = <<>>
    /\ \E in \in AnalysisInputs :
          /\ txt = in.text
          /\ wlist = in.words
    /\ apc = "soup"
    /\ aggr_df = <<>>
    /\ count_df = <<>>
    /\ corder = <<>>
    /\ out = <<>>

\* main.py:90-91: get_aggr_data is awaited directly and runs to its end
await_get_aggr_data ==
    /\ apc = "soup"
    /\ aggr_df' = <<get_aggr_data(txt, AnalysisUrl)>>
    /\ count_df' = [k \in 1..Len(wlist) |-> <<>>]
    /\ apc' = "gather"
    /\ UNCHANGED <<txt, wlist, corder, out>>
    /\ UNCHANGED <<progVars, run, previous>>

\* main.py:92: one count_words coroutine per word under asyncio.gather; the
\* model lets them return in any order
await_count_words(k) ==
    /\ apc = "gather"
    /\ count_df[k] = <<>>
    /\ count_df' = [count_df EXCEPT ![k] = <<count_words(txt, wlist[k], AnalysisUrl)>>]
    /\ corder' = Append(corder, k)
    /\ UNCHANGED <<txt, wlist, apc, aggr_df, out>>
    /\ UNCHANGED <<progVars, run, previous>>

\* variant: the count rows in the order in which the calls returned
merge_completion_order ==
    /\ apc = "gather"
    /\ \A k \in 1..Len(wlist) : count_df[k] # <<>>
    /\ out' = <<[k \in 1..Len(wlist) |->
                  [url |-> aggr_df[1].url,
                   total_words |-> aggr_df[1].total_words,
                   unique_words |-> aggr_df[1].unique_words,
                   word |-> count_df[corder[k]][1].word,
                   count |-> count_df[corder[k]][1].count]]>>
    /\ apc' = "done"
    /\ UNCHANGED <<txt, wlist, aggr_df, count_df, corder>>
    /\ UNCHANGED <<progVars, run, previous>>

\* main.py:92-96: gather returns the count rows in the order of the words;
\* pd.merge on url joins the one aggregate row with each of them, in order
merge ==
    /\ apc = "gather"
    /\ \A k \in 1..Len(wlist) : count_df[k] # <<>>
    /\ out' = <<[k \in 1..Len(wlist) |->
                  [url |-> aggr_df[1].url,
                   total_words |-> aggr_df[1].total_words,
                   unique_words |-> aggr_df[1].unique_words,
                   word |-> count_df[k][1].word,
                   count |-> count_df[k][1].count]]>>
    /\ apc' = "done"
    /\ UNCHANGED <<txt, wlist, aggr_df, count_df, corder>>
    /\ UNCHANGED <<progVars, run, previous>>

NextAnalysis ==
    \/ await_get_aggr_data
    \/ \E k \in 1..Len(wlist) : await_count_words(k)
    \/ merge

SpecAnalysis == InitAnalysis /\ [][NextAnalysis]_vars

\* ================================================== the program run twice
\* The program is started again after it has ended: a new process, so every
\* variable of the run starts afresh; urls.txt, the hosts and result.txt
\* are what the first run left.
rerun ==
    /\ run = 1
    /\ pc \in {"exit", "crashed"}
    /\ previous' = <<[pc |-> pc, exc |-> exc, final_df |-> final_df,
                      content |-> resultFile.content]>>
    /\ run' = 2
    /\ resultFile' = [resultFile EXCEPT !.ops = <<>>]
    /\ pc' = "get_urls"
    /\ urls' = <<>>
    /\ session' = "none"
    /\ nSessions' = 0
    /\ task' = <<>>
    /\ completion' = <<>>
    /\ gatherExc' = None
    /\ exc' = None
    /\ final_df' = <<>>
    /\ lines' = <<>>
    /\ clock' = 0
    /\ start_time' = <<>>
    /\ time_difference' = <<>>
    /\ stdout' = <<>>
    /\ escaped' = None
    /\ UNCHANGED <<urlsFile, server, analysisVars>>

NextTwice ==
    \/ Next
    \/ rerun

SpecTwice == Init /\ [][NextTwice]_vars

\* ================================================================ claims
\* task i ended with an error of its own fetch
FetchFailed(i) ==
    /\ task[i].st = "failed"
    /\ task[i].exc \in {"InvalidURL", "ClientConnectorError",
                        "ClientPayloadError"}

\* task i was given up: cancelled, or cut off by the closing of the session
Abandoned(i) == task[i].exc \in {"CancelledError", "ClientConnectionError"}

\* the fetch of url cannot succeed / is served a page
Fails(url) == url \notin ValidUrls \/ server[url] \notin Pages
Served(url) == ~Fails(url)

ReportAppended == \E k \in 1..Len(resultFile.ops) : resultFile.ops[k] = "write"

ErrorMessages == {MsgInvalid, MsgConnection, MsgGeneral}

\* ---------------------------------------------------------------- C1
\* C1 as stated: when the fetch of one URL of a batch of two or more fails,
\* no other task is cancelled or cut off, and once the run is over the
\* results have been collected.
C1_FailureIsolation ==
    (Len(task) >= 2 /\ \E i \in Tasks : FetchFailed(i))
        => /\ \A j \in Tasks : ~Abandoned(j)
           /\ pc = "exit" => final_df # <<>>

\* C1 as amended: a failing fetch aborts the batch.  gather raises the first
\* failure into main; fetch_all collects no result and no report is built
\* or written; when the run is over every task that had not finished has
\* been cancelled or cut off, and one error message has been printed.
C1_FailureAborts ==
    (\E i \in Tasks : FetchFailed(i))
        => /\ final_df = <<>>
           /\ lines = <<>>
           /\ ~ReportAppended
           /\ pc = "exit"
                => /\ \A j \in Tasks : task[j].st = "done" \/ FetchFailed(j)
                                       \/ Abandoned(j)
                   /\ Len(stdout) = 1
                   /\ stdout[1] \in ErrorMessages

\* a finished run of three fetches: one failed, one had completed, one was
\* cancelled
C1_Witness ==
    /\ pc = "exit"
    /\ Len(task) = 3
    /\ \E i, j, k \in Tasks :
          /\ FetchFailed(i)
          /\ task[j].st = "done"
          /\ task[k].st = "cancelled"

\* ---------------------------------------------------------------- C2
\* C2: once fetch_all has returned, its result holds the rows of exactly one
\* page result per position of the input list, in input order: the block of
\* position i is the result of fetching urls[i], whatever the order in which
\* the fetches completed and whether or not the list repeats a URL.
C2_InputOrder ==
    final_df # <<>>
        => LET df == final_df[1]
               w == Len(WORDS)
           IN /\ Len(df) = Len(urls) * w
              /\ \A i \in 1..Len(urls) :
                    SubSeq(df, (i - 1) * w + 1, i * w)
                        = PageResult[server[urls[i]]][urls[i]]

\* three fetches, one URL repeated and the pages of the two URLs different,
\* collected after they completed in the reverse of the input order
C2_Witness ==
    /\ final_df # <<>>
    /\ Len(urls) = 3
    /\ urls[1] = urls[3]
    /\ urls[1] # urls[2]
    /\ server[urls[1]] # server[urls[2]]
    /\ completion = <<3, 2, 1>>

\* ---------------------------------------------------------------- C3
ExactlyOneUnreachable ==
    /\ Len(urls) = 3
    /\ \E i \in 1..3 :
          /\ urls[i] \in ValidUrls
          /\ server[urls[i]] = "down"
          /\ \A j \in (1..3) \ {i} : Served(urls[j])

\* the rows of the pages that could be fetched, in input order
RECURSIVE ServedRows(_)
ServedRows(us) ==
    IF us = <<>> THEN <<>>
    ELSE (IF Served(Head(us))
          THEN PageResult[server[Head(us)]][Head(us)]
          ELSE <<>>)
         \o ServedRows(Tail(us))

\* C3 as stated: a finished run of three URLs of which exactly one is
\* unreachable has raised nothing and result.txt holds one report, with the
\* counts and totals of the two pages that were fetched.
C3_ReportOfTheTwo ==
    (ExactlyOneUnreachable /\ pc = "exit")
        => /\ escaped = None
           /\ ~PivotRaises(ServedRows(urls))
                => resultFile.content = <<ReportLines(ServedRows(urls))>>

\* C3 as amended: in a batch of three URLs of which exactly one is
\* unreachable, nothing is raised to the caller once result.txt has been
\* truncated; the run ends with the connection-error message as its only
\* output, and result.txt receives no report: it is left without content.
C3_NoReport ==
    (ExactlyOneUnreachable /\ pc \notin {"get_urls", "truncate", "crashed"})
        => /\ escaped = None
           /\ final_df = <<>>
           /\ ~ReportAppended
           /\ resultFile.content = <<>>
           /\ pc = "exit" => stdout = <<MsgConnection>>

\* such a run, finished, the other two fetches having completed
C3_Witness ==
    /\ ExactlyOneUnreachable
    /\ \A i, j \in 1..3 : i # j => urls[i] # urls[j]
    /\ pc = "exit"
    /\ Cardinality({i \in Tasks : task[i].st = "done"}) = 2
    /\ stdout = <<MsgConnection>>

\* ---------------------------------------------------------------- C4
\* the line of the report at position k
ReportLine(k) == lines[1][k]

\* C4: in every report that is built, the total of each configured word is
\* the sum, over the positions of the input list, of the count of that word
\* in the page fetched there, and the two grand totals are the sums of
\* total_words and of unique_words of those pages, each page counted once.
\* (A report is built only when every fetch succeeded.)
C4_Totals ==
    lines # <<>>
        => LET n == Len(urls)
               page(i) == PageText(server[urls[i]])
               count(w) == [i \in 1..n |-> count_words(page(i), w, urls[i]).count]
               total == [i \in 1..n |-> get_aggr_data(page(i), urls[i]).total_words]
               unique == [i \in 1..n |-> get_aggr_data(page(i), urls[i]).unique_words]
           IN /\ \A i \in 1..n : Served(urls[i])
              /\ Len(lines[1]) = Len(WORDS) * (n + 2) + 2
              /\ \A k \in 1..Len(WORDS) :
                    ReportLine(k * (n + 2))
                        = <<"- Total count for word", WORDS[k],
                            SumOver(count(WORDS[k]), n)>>
              /\ ReportLine(Len(WORDS) * (n + 2) + 1)
                    = <<"* Total count of all words in all urls",
                        SumOver(total, n)>>
              /\ ReportLine(Len(WORDS) * (n + 2) + 2)
                    = <<"* Total count of unique words in all urls",
                        SumOver(unique, n)>>

\* the report of the two pages of the scenario of the specification is in
\* result.txt: totals 2 and 1, grand totals 11 and 10
C4_Witness ==
    /\ ReportAppended
    /\ Len(urls) = 2
    /\ server[urls[1]] = "A"
    /\ server[urls[2]] = "B"
    /\ ReportLine(4) = <<"- Total count for word", team, 2>>
    /\ ReportLine(8) = <<"- Total count for word", uniberg, 1>>
    /\ ReportLine(9) = <<"* Total count of all words in all urls", 11>>
    /\ ReportLine(10) = <<"* Total count of unique words in all urls", 10>>

\* ---------------------------------------------------------------- C5
EveryFetchFails == urls # <<>> /\ \A i \in 1..Len(urls) : Fails(urls[i])

\* C5 as stated: a finished batch in which every fetch fails has raised no
\* error and has written a report whose two grand totals are 0.
C5_ZeroTotals ==
    (EveryFetchFails /\ pc = "exit")
        => /\ stdout = <<MsgElapsed>>
           /\ Len(resultFile.content) = 1
           /\ LET r == resultFile.content[1]
              IN /\ Len(r) >= 2
                 /\ r[Len(r) - 1] = <<"* Total count of all words in all urls", 0>>
                 /\ r[Len(r)] = <<"* Total count of unique words in all urls", 0>>

\* C5 as amended: a batch in which every fetch fails yields no report: once
\* result.txt has been truncated nothing is raised to the caller, fetch_all
\* returns nothing, nothing is written to result.txt, and the run ends with
\* one error message (that of the first fetch to fail) as its only output.
C5_NoReport ==
    (EveryFetchFails /\ pc \notin {"get_urls", "truncate", "crashed"})
        => /\ escaped = None
           /\ final_df = <<>>
           /\ lines = <<>>
           /\ resultFile.content = <<>>
           /\ ~ReportAppended
           /\ pc = "exit"
                => /\ Len(stdout) = 1
                   /\ stdout[1] = HandlerMessage(task[completion[1]].exc)

\* a finished batch of three fetches that all failed, each in its own way
C5_Witness ==
    /\ EveryFetchFails
    /\ pc = "exit"
    /\ Len(task) = 3
    /\ \A i \in Tasks : FetchFailed(i)
    /\ \A i, j \in Tasks : i # j => task[i].exc # task[j].exc

\* ---------------------------------------------------------------- C6
MissingUrls == urlsFile.kind = "missing"
EmptyUrls == urlsFile.kind = "ok" /\ urlsFile.lines = <<>>

\* C6: when urls.txt is missing or empty, no step of the run launches a
\* fetch, opens a session or touches result.txt (its existence and content
\* stay what they were), and the run ends with one message, which differs
\* between the two cases.
C6_SetupErrors ==
    [][(MissingUrls \/ EmptyUrls)
          => /\ task' = <<>>
             /\ session' = "none"
             /\ resultFile' = resultFile
             /\ resultFile.ops = <<>>
             /\ pc' = "exit"
             /\ stdout' = <<IF MissingUrls THEN MsgMissing ELSE MsgEmpty>>
             /\ MsgMissing # MsgEmpty]_vars

\* the run on an empty urls.txt has ended; the report of an earlier run is
\* still in result.txt
C6_Witness ==
    /\ EmptyUrls
    /\ pc = "exit"
    /\ stdout = <<MsgEmpty>>
    /\ resultFile.content = <<OldReport>>

\* ---------------------------------------------------------------- C7
\* C7: every operation on result.txt is either the one truncation, made
\* before any session or fetch task exists, or belongs to the one append
\* (open, then a single write), made when every fetch task of the batch has
\* completed; so nothing is written while a fetch is in flight.
C7_FileOperations ==
    [][resultFile' # resultFile
          => LET op == resultFile'.ops[Len(resultFile'.ops)]
             IN /\ Len(resultFile'.ops) = Len(resultFile.ops) + 1
                /\ op = "truncate"
                     => /\ resultFile.ops = <<>>
                        /\ task = <<>>
                        /\ session = "none"
                        /\ resultFile'.content = <<>>
                /\ op = "open"
                     => /\ resultFile.ops \in {<<>>, <<"truncate">>}
                        /\ resultFile'.content = resultFile.content
                /\ op = "write"
                     => /\ resultFile.ops \in {<<"open">>, <<"truncate", "open">>}
                        /\ resultFile'.content = <<lines[1]>>
                /\ op \in {"open", "write"}
                     => /\ task # <<>>
                        /\ \A i \in Tasks : task[i].st = "done"
                /\ op \in {"truncate", "open", "write"}]_vars

\* a file left by an earlier run has been truncated and then received the
\* report of three fetches
C7_Witness ==
    /\ resultFile.ops = <<"truncate", "open", "write">>
    /\ Len(task) = 3
    /\ Len(resultFile.content) = 1

\* ---------------------------------------------------------------- C8
\* C8: from the moment main awaits the results, there is exactly one fetch
\* task per entry of the URL list (task i fetches urls[i]); none of them has
\* run before all of them exist; one session was created and every task
\* uses it.
C8_FanOut ==
    /\ nSessions <= 1
    /\ task # <<>> \/ pc \notin {"get_urls", "truncate", "main", "session",
                                  "fetch_all", "exit", "crashed"}
          => /\ Len(task) = Len(urls)
             /\ nSessions = 1
             /\ \A i \in Tasks : task[i].url = urls[i] /\ task[i].session = 1

\* three tasks submitted, two of them for the same URL, none of them run yet
C8_Witness ==
    /\ pc = "gather"
    /\ Len(task) = 3
    /\ urls[1] = urls[3]
    /\ \A i \in Tasks : task[i].st = "pending"

\* ---------------------------------------------------------------- C9
\* C9 as stated: no exception ever leaves the program, and a run that has
\* ended has printed exactly one message.
C9_NothingEscapes ==
    /\ escaped = None
    /\ pc # "crashed"
    /\ pc = "exit" => Len(stdout) = 1

\* the message a run that ended normally must have printed
ExpectedMessage ==
    IF MissingUrls THEN MsgMissing
    ELSE IF EmptyUrls THEN MsgEmpty
    ELSE IF exc = None THEN MsgElapsed
    ELSE IF exc = "InvalidURL" THEN MsgInvalid
    ELSE IF exc = "ClientConnectorError" THEN MsgConnection
    ELSE MsgGeneral

\* C9 as amended: an exception leaves the program only when opening urls.txt
\* or opening result.txt for truncation fails with an error other than
\* FileNotFoundError (such as PermissionError), and then nothing has been
\* printed.  Every other run ends with exactly one message on stdout: the
\* elapsed-time line when the report was appended, else the message for a
\* missing urls.txt, an empty urls.txt, an invalid URL, a failed connection,
\* or any other error raised while fetching, analysing or writing the
\* report.  Nothing is printed before the end of the run.
C9_OneMessage ==
    /\ pc = "exit"
         => /\ escaped = None
            /\ stdout = <<ExpectedMessage>>
            /\ stdout = <<MsgElapsed>> <=> ReportAppended
    /\ pc = "crashed" <=> escaped # None
    /\ escaped # None
         => /\ stdout = <<>>
            /\ escaped = "PermissionError"
            /\ session = "none"
            /\ task = <<>>
            /\ urlsFile.kind = "denied" \/ resultFile.exists
    /\ pc \notin {"exit", "crashed"} => stdout = <<>>

\* a run that ended with the general message, raised while the report was
\* being written (result.txt could not be created)
C9_Witness ==
    /\ pc = "exit"
    /\ stdout = <<MsgGeneral>>
    /\ exc = "PermissionError"
    /\ final_df # <<>>

\* --------------------------------------------------------------- C10
\* C10 as stated: the end of the measurement is taken when the last result
\* has been collected, before the report write begins.
C10_EndsBeforeWrite ==
    [][time_difference' # time_difference
          => lines = <<>> /\ ~ReportAppended]_vars

\* C10 as amended: the elapsed time printed is the time from the start of
\* main, before the session is created and any fetch is launched, to the
\* moment after the report has been appended and the session closed; it
\* includes the write of the report.
C10_CoversTheWrite ==
    [][/\ start_time' # start_time
            => /\ session = "none"
               /\ task = <<>>
               /\ start_time' = <<clock>>
       /\ time_difference' # time_difference
            => /\ ReportAppended
               /\ session = "closed"
               /\ time_difference' = <<clock - start_time[1]>>
       /\ (stdout' # stdout /\ stdout' = <<MsgElapsed>>)
            => time_difference # <<>>]_vars

\* the elapsed time of a batch of three fetches is about to be printed
C10_Witness ==
    /\ pc = "print"
    /\ Len(task) = 3
    /\ time_difference # <<>>
    /\ ReportAppended

\* --------------------------------------------------------------- C11
AllServed == urls # <<>> /\ \A i \in 1..Len(urls) : Served(urls[i])

\* the block the claim describes for the word at position k of the word
\* list: header, one line per entry of the input list, total
ClaimedBlock(k) ==
    LET n == Len(urls)
        count == [i \in 1..n |-> PageResult[server[urls[i]]][urls[i]][k].count]
    IN <<  <<"Occurrences of word", WORDS[k]>>  >>
       \o [i \in 1..n |-> <<"-", urls[i], count[i]>>]
       \o <<  <<"- Total count for word", WORDS[k], SumOver(count, n)>>  >>

RECURSIVE ClaimedBlocks(_)
ClaimedBlocks(k) ==
    IF k > Len(WORDS) THEN <<>> ELSE ClaimedBlock(k) \o ClaimedBlocks(k + 1)

ClaimedReport ==
    LET n == Len(urls)
        total == [i \in 1..n |-> PageResult[server[urls[i]]][urls[i]][1].total_words]
        unique == [i \in 1..n |-> PageResult[server[urls[i]]][urls[i]][1].unique_words]
    IN ClaimedBlocks(1)
       \o <<  <<"* Total count of all words in all urls", SumOver(total, n)>>,
              <<"* Total count of unique words in all urls", SumOver(unique, n)>>  >>

\* C11 as stated: when every fetch of a batch succeeded (and result.txt
\* could be opened), the run ends with the report in result.txt that has,
\* per configured word in word-list order, a header, one count line per
\* entry of the input list in input order and the total, and the two grand
\* totals once at the end.
C11_ReportLayout ==
    (AllServed /\ pc = "exit" /\ exc # "PermissionError")
        => resultFile.content = <<ClaimedReport>>

\* the same for the lists that repeat no URL, where the code does what the
\* claim says
C11_ReportLayoutNoRepeat ==
    (AllServed /\ pc = "exit" /\ exc # "PermissionError"
       /\ \A i, j \in 1..Len(urls) : i # j => urls[i] # urls[j])
        => resultFile.content = <<ClaimedReport>>

\* ---------------------------------------------------------------- C12
Letters == RangeOf(UpperCase) \cup RangeOf(LowerCase)

\* the maximal runs of non-whitespace characters of s, as <<first, last>>
Runs(s) ==
    {r \in (1..Len(s)) \X (1..Len(s)) :
        /\ r[1] <= r[2]
        /\ \A k \in r[1]..r[2] : s[k] \notin Whitespace
        /\ r[1] = 1 \/ s[r[1] - 1] \in Whitespace
        /\ r[2] = Len(s) \/ s[r[2] + 1] \in Whitespace}

\* the runs that consist of letters only, and the token each of them gives
Retained(s) == {r \in Runs(s) : \A k \in r[1]..r[2] : s[k] \in Letters}
Token(s, r) == Lower(SubSeq(s, r[1], r[2]))

PairwiseDistinct(s) ==
    \A p, q \in Retained(s) : p # q => Token(s, p) # Token(s, q)

\* C12: get_aggr_data counts the retained tokens (lowercased,
\* whitespace-split, purely alphabetic); total_words is never below
\* unique_words, the two are equal exactly when the retained tokens are
\* pairwise distinct, and the empty text gives 0 and 0.
C12_Aggregates ==
    aggr_df # <<>> =>
        LET d == aggr_df[1]
        IN /\ d.total_words = Cardinality(Retained(txt))
           /\ d.total_words >= d.unique_words
           /\ (d.total_words = d.unique_words) <=> PairwiseDistinct(txt)
           /\ txt = <<>> => d.total_words = 0 /\ d.unique_words = 0

\* "a A": two retained tokens that are one word once lowercased
C12_Witness ==
    /\ txt = <<"a", " ", "A">>
    /\ aggr_df # <<>>
    /\ aggr_df[1].total_words = 2
    /\ aggr_df[1].unique_words = 1

\* ---------------------------------------------------------------- C13
\* the strings that differ from s in the case of letters only
CharCasings(c) == {c, SwapChar(c)}

RECURSIVE Casings(_)
Casings(s) ==
    IF s = <<>> THEN {<<>>}
    ELSE {<<c>> \o t : c \in CharCasings(Head(s)), t \in Casings(Tail(s))}

\* for a long text, the three strings str.upper, str.lower, str.swapcase give
TextCasings(s) ==
    IF Len(s) <= MaxTextLen + 1 THEN Casings(s)
    ELSE {Upper(s), Lower(s), SwapCase(s)}

\* C13: the count that count_words has returned for a word does not depend
\* on the case of the letters of the word, nor on the case of the letters of
\* the text.
C13_CaseInsensitive ==
    \A k \in 1..Len(count_df) :
        apc = "done" =>
            /\ \A w \in Casings(wlist[k]) :
                   FindAllFrom(txt, w, 1) = count_df[k][1].count
            /\ \A t \in TextCasings(txt) :
                   FindAllFrom(t, wlist[k], 1) = count_df[k][1].count

\* the word "aA" found once in the text "Aa"
C13_Witness ==
    /\ txt = <<"A", "a">>
    /\ wlist[1] = <<"a", "A">>
    /\ apc = "done"
    /\ count_df[1][1].count = 1

\* ---------------------------------------------------------------- C14
\* both runs went through to their end without an error of a file
BothRunsOver ==
    /\ run = 2
    /\ pc = "exit"
    /\ exc # "PermissionError"
    /\ previous[1].pc = "exit"
    /\ previous[1].exc # "PermissionError"

\* C14 as stated: when the batch has been run twice on the same pages, all
\* of them served, the two runs computed the same counts and totals, and
\* result.txt holds exactly one report, the one the first run had left.
C14_SameReportTwice ==
    (BothRunsOver /\ AllServed) =>
        /\ final_df # <<>>
        /\ final_df = previous[1].final_df
        /\ Len(resultFile.content) = 1
        /\ resultFile.content = previous[1].content

\* the same for lists of URLs in which no URL is repeated
C14_SameReportTwiceNoRepeat ==
    (/\ BothRunsOver
     /\ AllServed
     /\ \A i, j \in 1..Len(urls) : i # j => urls[i] # urls[j])
        => /\ final_df # <<>>
           /\ final_df = previous[1].final_df
           /\ resultFile.content = <<ClaimedReport>>
           /\ resultFile.content = previous[1].content

\* ---------------------------------------------------------------- C15
\* task i is suspended in its request: waiting for the connection or for
\* the body
Suspended(i) == task[i].st \in {"connecting", "reading"}

\* the step task j is waiting to take can be taken
CanGoOn(j) ==
    /\ (task[j].st = "pending" /\ \A i \in 1..(j - 1) : task[i].st # "pending")
           => ENABLED fetch_data_start(j)
    /\ (task[j].st = "connecting" /\ AllStarted) => ENABLED fetch_data_connect(j)
    /\ (task[j].st = "reading" /\ AllStarted) => ENABLED fetch_data_read(j)

\* C15: while the batch is awaited, whatever task is suspended in its
\* request and however long, every other task can take its next step: its
\* first run once the tasks before it have had theirs, the arrival of its
\* response, the arrival and analysis of its body.
C15_StallBlocksOnlyItself ==
    (pc = "gather" /\ session = "open") =>
        \A s \in Tasks :
            Suspended(s) => \A j \in Tasks \ {s} : CanGoOn(j)

\* the first of three tasks still waits for its connection when the two
\* others have returned their page results
C15_Witness ==
    /\ pc = "gather"
    /\ Len(task) = 3
    /\ task[1].st = "connecting"
    /\ \A j \in {2, 3} : task[j].st = "done" /\ task[j].result # <<>>

\* ---------------------------------------------------------------- C16
\* C16: the page result fetch_data returns has one row per word of the
\* list, the row at position k being the count record of the k-th word,
\* whatever the order in which the count_words calls returned, and every
\* row carries the total_words and unique_words get_aggr_data returned
\* for the page.
C16_RowPerWordInOrder ==
    apc = "done" =>
        /\ Len(out[1]) = Len(wlist)
        /\ \A k \in 1..Len(wlist) :
              /\ out[1][k].word = wlist[k]
              /\ out[1][k].count = count_df[k][1].count
              /\ out[1][k].url = AnalysisUrl
              /\ out[1][k].total_words = aggr_df[1].total_words
              /\ out[1][k].unique_words = aggr_df[1].unique_words
        /\ out[1] = url_stat_df(txt, AnalysisUrl, wlist)

\* the count for the second word was returned before the count for the
\* first, and the two counts differ
C16_Witness ==
    /\ apc = "done"
    /\ corder = <<2, 1>>
    /\ out[1][1].count # out[1][2].count

\* ---------------------------------------------------------------- C17
\* the positions at which the word occurs in the text, whatever the case
Occurrences(text, word) ==
    {i \in 1..Len(text) :
        /\ i + Len(word) - 1 <= Len(text)
        /\ Lower(SubSeq(text, i, i + Len(word) - 1)) = Lower(word)}

\* no two of the occurrences at the positions of P overlap
NonOverlapping(P, word) ==
    \A i, j \in P : i < j => i + Len(word) <= j

\* the largest number of occurrences of the word no two of which overlap
MaxNonOverlapping(text, word) ==
    LET sets == {P \in SUBSET Occurrences(text, word) : NonOverlapping(P, word)}
    IN CHOOSE n \in 0..Len(text) :
          /\ \E P \in sets : Cardinality(P) = n
          /\ \A P \in sets : Cardinality(P) <= n

\* the whitespace-separated tokens of the text that are the word
WholeWords(text, word) ==
    Len(SelectSeq(Split(text), LAMBDA t : Lower(t) = Lower(word)))

\* C17: the count of count_words is the number of non-overlapping
\* occurrences of the word as a substring of the text, the case of letters
\* disregarded; it is not the number of whole-word matches: the text
\* "teamwork" counts 1 for the word "team".
C17_SubstringCount ==
    apc = "done" =>
        /\ \A k \in 1..Len(wlist) :
              count_df[k][1].count = MaxNonOverlapping(txt, wlist[k])
        /\ (txt = Teamwork /\ wlist[1] = team) => count_df[1][1].count = 1

\* "teamwork": one occurrence of "team", which is no whole word of the text
C17_Witness ==
    /\ apc = "done"
    /\ txt = Teamwork
    /\ wlist[1] = team
    /\ count_df[1][1].count = 1
    /\ WholeWords(txt, wlist[1]) = 0

\* ---------------------------------------------------------------- C18
\* task i has started its request and has not ended
InFlight(i) == task[i].st \in {"connecting", "reading"}

\* C18 as stated: the session is never closed while a task is in flight.
C18_NeverClosedInFlight ==
    session = "closed" => \A i \in Tasks : ~InFlight(i)

\* what holds of the code: when the session is closed after every fetch
\* succeeded, no task is in flight; it is closed with tasks in flight when
\* a fetch has failed and its exception is leaving main, and asyncio.run
\* ends those tasks in its next step, before the error is handled
ClosedInFlightOnlyOnAbort ==
    session = "closed" =>
        /\ exc = None => AllDone
        /\ (\E i \in Tasks : InFlight(i)) =>
              /\ pc = "run_shutdown"
              /\ exc # None
              /\ \E j \in Tasks : FetchFailed(j)

\* ---------------------------------------------------------------- C19
\* the run is over, and it had passed the validation of urls.txt
EndOfValidatedRun == pc \in {"exit", "crashed"} /\ urls # <<>>

\* result.txt holds the report of this run and nothing else
OnlyThisReport == lines # <<>> /\ resultFile.content = <<lines[1]>>

\* result.txt holds nothing: it is empty if it was there before the run
\* (then the run has truncated it), and absent otherwise
NoReportAtAll ==
    /\ resultFile.content = <<>>
    /\ ~ReportAppended
    /\ resultFile.exists <=> (\E k \in 1..Len(resultFile.ops) : resultFile.ops[k] = "truncate")

\* C19 as stated: at the end of every run that passed setup validation,
\* result.txt holds exactly the report of this run, or, the batch having
\* ended with an error, no report at all; content of an earlier run never
\* survives.
C19_OneReportOrNone ==
    EndOfValidatedRun =>
        \/ OnlyThisReport
        \/ exc # None /\ NoReportAtAll

\* C19 amended: the same for every run in which result.txt, when present,
\* could be opened for the truncation; a run in which it could not ends
\* there with the exception, and result.txt is left as it was.
C19_OneReportOrNoneOnceTruncated ==
    EndOfValidatedRun =>
        IF escaped = None
        THEN /\ exc = None => OnlyThisReport
             /\ exc # None => NoReportAtAll
        ELSE /\ pc = "crashed"
             /\ resultFile = [exists |-> TRUE, content |-> <<OldReport>>,
                              ops |-> <<>>]
             /\ task = <<>>

\* result.txt held the report of an earlier run, and the run ends with its
\* own report as the only content
C19_Witness ==
    /\ pc = "exit"
    /\ resultFile.ops = <<"truncate", "open", "write">>
    /\ OnlyThisReport

\* ---------------------------------------------------------------- C20
Terminated == pc \in {"exit", "crashed"}

ElapsedPrinted == MsgElapsed \in RangeOf(stdout)

\* C20: under fair scheduling, every fetch launched returning or failing
\* in the end, the run terminates; and the elapsed-time line is printed
\* only when the report has been appended, never when a fetch has failed.
C20_TerminatesElapsedOnlyWithReport ==
    /\ <>Terminated
    /\ [](ElapsedPrinted =>
            /\ ReportAppended
            /\ exc = None
            /\ \A i \in Tasks : task[i].st = "done")

\* a run of two fetches that has ended with the elapsed-time line
C20_Witness ==
    /\ Terminated
    /\ Len(task) = 2
    /\ ElapsedPrinted
    /\ ReportAppended
====
